---- MODULE Spec2Model ----
(***************************************************************************)
(* Model of gcalendar_components.py: the Google Calendar components of a   *)
(* Xircuits workflow.  The host runs the components one after the other;   *)
(* each component's execute(ctx) reads its input ports, looks the client   *)
(* up in the shared Context, issues its remote call(s) and sets its output *)
(* ports.  The remote calendar service is modelled by the store `remote`   *)
(* and by the nondeterministic outcome of each call.                       *)
(***************************************************************************)
EXTENDS Integers, Sequences, FiniteSets, TLC

VARIABLES
    ctx,      \* the Context mapping handed to every execute(ctx)
    remote,   \* the remote service: event id -> [cal, ev]
    runs,     \* how many components the host has started
    pc,       \* position inside the running component ("idle" between components)
    unit,     \* the component that runs, or ran last
    args,     \* its input ports
    local,    \* its local variables
    calls,    \* the remote calls it issued, in order
    out,      \* its output ports that were set
    err,      \* the exception it raised ("" when none)
    ctx0,     \* history: the Context when the component started
    remote0   \* history: the remote store when the component started

vars == <<ctx, remote, runs, pc, unit, args, local, calls, out, err, ctx0, remote0>>

(***************************************************************************)
(* Bounds of the model.                                                    *)
(***************************************************************************)
MaxRuns == 3      \* components per workflow run
MaxEvents == 2    \* events the remote store can hold
MaxLen == 3       \* characters of a conferencing URL

(***************************************************************************)
(* Python values of the input ports: None, a str, a list.                  *)
(***************************************************************************)
None == [t |-> "none"]
Str(s) == [t |-> "str", v |-> s]
Lst(l) == [t |-> "list", v |-> l]
Chars(u) == [t |-> "chars", v |-> u]

\* Python truthiness, as `if x:` evaluates it.
Truthy(x) ==
    CASE x.t = "none" -> FALSE
      [] x.t = "str" -> x.v # ""
      [] x.t = "list" -> x.v # <<>>
      [] x.t = "chars" -> x.v # <<>>

(***************************************************************************)
(* Python dicts: functions whose domain is the set of keys present.        *)
(***************************************************************************)
EmptyDict == [k \in {} |-> None]
DictSet(d, key, val) == [k \in (DOMAIN d) \cup {key} |-> IF k = key THEN val ELSE d[k]]
DictGet(d, key, default) == IF key \in DOMAIN d THEN d[key] ELSE default
DictDel(d, key) == [k \in (DOMAIN d) \ {key} |-> d[k]]

(***************************************************************************)
(* The host: a component starts when none is running.                      *)
(***************************************************************************)
CanStart == pc = "idle" /\ runs < MaxRuns

\* A component starts: fresh ports, nothing called, the histories taken.
Begin(name, a) ==
    /\ CanStart
    /\ runs' = runs + 1
    /\ unit' = name
    /\ args' = a
    /\ ctx0' = ctx
    /\ remote0' = remote

\* The component returns (e = "") or raises exception e; the host takes over.
Finish(e) ==
    /\ err' = e
    /\ pc' = "idle"

\* Mutation of HasService: a component goes on without the client.
HasService_fallback == TRUE

\* service = ctx["service"]: a KeyError when the key is missing.
HasService == "service" \in DOMAIN ctx

CalendarIds == {"primary", "work"}

\* cal_id = self.calendar_id.value if self.calendar_id.value else "primary"
CalOrPrimary(c) == IF Truthy(c) THEN c.v ELSE "primary"

(***************************************************************************)
(* AuthenticateGoogleCalendar.execute                                      *)
(***************************************************************************)
SCOPES == "https://www.googleapis.com/auth/calendar"

from_service_account(src) == [source |-> src, scopes |-> SCOPES, subject |-> None]
with_subject(credentials, subject) == [credentials EXCEPT !.subject = Str(subject)]
build(credentials) == [api |-> "calendar", version |-> "v3", credentials |-> credentials]

\* Mutation of UsesFile: the path is taken without asking whether the file exists.
UsesFile_unchecked(path, exists) == Truthy(path)

\* if SERVICE_ACCOUNT_FILE and os.path.exists(SERVICE_ACCOUNT_FILE)
UsesFile(path, exists) == Truthy(path) /\ exists

\* Mutation of Impersonates: `if self.impersonate_user_account.value:`.
Impersonates_truthy(subject) == Truthy(subject)

\* if self.impersonate_user_account.value is not None
Impersonates(subject) == subject.t # "none"

\* The client the last lines of execute build from the loaded credentials.
AuthService(credentials, subject) ==
    IF Impersonates(subject)
    THEN build(with_subject(credentials, subject.v))
    ELSE build(credentials)

\* The credentials execute loads, or the exception it raises while loading.
\* exists: os.path.exists of the path; encoded: os.getenv of the variable;
\* wellFormed: whether the chosen source parses as service-account credentials.
LoadCredentials(path, exists, encoded, wellFormed) ==
    IF UsesFile(path, exists)
    THEN IF wellFormed
         THEN [err |-> "", credentials |-> from_service_account("file")]
         ELSE [err |-> "MalformedCredentials"]
    ELSE IF ~Truthy(encoded)
         THEN [err |-> "ValueError"]
         ELSE IF wellFormed
              THEN [err |-> "", credentials |-> from_service_account("env")]
              ELSE [err |-> "MalformedCredentials"]

AuthenticateGoogleCalendar(a, exists, encoded, wellFormed) ==
    LET loaded == LoadCredentials(a.service_account_json, exists, encoded, wellFormed) IN
    /\ Begin("AuthenticateGoogleCalendar", a)
    /\ calls' = <<>>
    /\ out' = EmptyDict
    /\ remote' = remote
    /\ IF loaded.err = ""
       THEN LET service == AuthService(loaded.credentials, a.impersonate_user_account) IN
            /\ local' = [path_exists |-> exists, encoded_json |-> encoded,
                         built |-> <<service>>]
            /\ ctx' = DictSet(ctx, "service", service)
            /\ Finish("")
       ELSE /\ local' = [path_exists |-> exists, encoded_json |-> encoded,
                         built |-> <<>>]
            /\ ctx' = ctx
            /\ Finish(loaded.err)

(***************************************************************************)
(* The remote calendar service, as the components see it.                  *)
(***************************************************************************)
HttpError == [error |-> "HttpError"]
Failed(resp) == "error" \in DOMAIN resp

Stored(cal, id) == id \in DOMAIN remote /\ remote[id].cal = cal
EventsOf(cal) == {id \in DOMAIN remote : remote[id].cal = cal}

\* The ids the service hands out, in order; a new event takes the first free one.
IdOrder == <<"e1", "e2", "e3", "e4">>
FreshId == IdOrder[CHOOSE i \in 1..Len(IdOrder) :
                     /\ IdOrder[i] \notin DOMAIN remote
                     /\ \A j \in 1..(i - 1) : IdOrder[j] \in DOMAIN remote]
HasRoom == Cardinality(DOMAIN remote) < MaxEvents

\* The sequences without repetition over the members of S.
Arrangements(S) ==
    {s \in UNION {[1..n -> S] : n \in 0..Cardinality(S)} :
        \A i, j \in DOMAIN s : i # j => s[i] # s[j]}

\* What events().list may answer for a calendar: an error, or any selection of
\* the calendar's events (the window and the query are the service's business)
\* in the order the service chooses; an answer with nothing may omit "items".
ListResponses(cal) ==
    {HttpError}
    \cup {[kind |-> "calendar#events"]}
    \cup {[kind |-> "calendar#events", items |-> [i \in DOMAIN s |-> remote[s[i]].ev]] :
            s \in Arrangements(EventsOf(cal))}

\* The outcome of a component that found no "service" in the Context:
\* `service = ctx["service"]` raises before anything else happens.
MissingService ==
    /\ calls' = <<>>
    /\ out' = EmptyDict
    /\ local' = EmptyDict
    /\ ctx' = ctx
    /\ remote' = remote
    /\ Finish("KeyError")

\* The outcome of a component whose remote call raised: no port is set.
RemoteFailure(issued) ==
    /\ calls' = issued
    /\ out' = EmptyDict
    /\ local' = EmptyDict
    /\ ctx' = ctx
    /\ remote' = remote
    /\ Finish("HttpError")

(***************************************************************************)
(* GetGoogleCalendarEvents                                                 *)
(***************************************************************************)
Last(s) == s[Len(s)]

\* str.split(sep): the pieces between the separators, in order.
RECURSIVE split(_, _)
split(s, sep) ==
    IF \A i \in 1..Len(s) : s[i] # sep
    THEN <<s>>
    ELSE LET i == CHOOSE k \in 1..Len(s) :
                     s[k] = sep /\ \A j \in 1..(k - 1) : s[j] # sep
         IN <<SubSeq(s, 1, i - 1)>> \o split(SubSeq(s, i + 1, Len(s)), sep)

\* Mutation of extract_meeting_id: the first piece instead of the last.
extract_meeting_id_first(meet_url) ==
    IF meet_url # <<>>
    THEN Chars(split(meet_url, "/")[1])
    ELSE None

extract_meeting_id(meet_url) ==
    IF meet_url # <<>>
    THEN Chars(Last(split(meet_url, "/")))
    ELSE None

\* event['start'].get('dateTime', event['start'].get('date'))
EventTime(t) ==
    IF "dateTime" \in DOMAIN t THEN Str(t.dateTime)
    ELSE IF "date" \in DOMAIN t THEN Str(t.date)
    ELSE None

\* The event_details dict of one remote item.
EventDetails(event) ==
    [event_name |-> DictGet(event, "summary", "No Title"),
     start_time |-> EventTime(event.start),
     end_time |-> EventTime(event.end),
     location |-> DictGet(event, "location", ""),
     participants |-> LET att == DictGet(event, "attendees", <<>>)
                      IN [i \in DOMAIN att |-> att[i].email],
     gmeet_link |-> DictGet(event, "hangoutLink", <<>>),
     meeting_id |-> extract_meeting_id(DictGet(event, "hangoutLink", <<>>))]

\* Mutation of EventsList: the list is built in reverse.
EventsList_reversed(events) ==
    [i \in DOMAIN events |-> EventDetails(events[Len(events) + 1 - i])]

\* The loop that appends one event_details per item.
EventsList(events) == [i \in DOMAIN events |-> EventDetails(events[i])]

\* The value of the `events` port for a list response.
GetEventsOutput(events_result) ==
    LET events == DictGet(events_result, "items", <<>>) IN
    IF events = <<>>
    THEN [message |-> "No events found for the specified time range."]
    ELSE [events |-> EventsList(events)]

GetGoogleCalendarEvents(a, resp) ==
    LET call == [op |-> "events.list", calendarId |-> a.calendar_id.v,
                 timeMin |-> a.start_time.v, timeMax |-> a.end_time.v,
                 singleEvents |-> TRUE] IN
    /\ Begin("GetGoogleCalendarEvents", a)
    /\ IF ~HasService THEN MissingService
       ELSE IF Failed(resp) THEN RemoteFailure(<<call>>)
       ELSE /\ calls' = <<call>>
            /\ local' = [events_result |-> resp]
            /\ out' = [events |-> GetEventsOutput(resp)]
            /\ ctx' = ctx
            /\ remote' = remote
            /\ Finish("")

(***************************************************************************)
(* CreateGoogleCalendarEvent                                               *)
(***************************************************************************)
Emails(l) == [i \in DOMAIN l |-> [email |-> l[i]]]

\* Mutation of SetIfSupplied: `if self.<port>.value is not None:`.
SetIfNotNone(event, key, port, val) ==
    IF port # None THEN DictSet(event, key, val) ELSE event

\* if self.<port>.value: event[key] = val
SetIfSupplied(event, key, port, val) ==
    IF Truthy(port) THEN DictSet(event, key, val) ELSE event

\* The event dict execute assembles before the insert.
CreateBody(a) ==
    LET e0 == [summary |-> a.summary.v,
               start |-> [dateTime |-> a.start_time.v, timeZone |-> "UTC"],
               end |-> [dateTime |-> a.end_time.v, timeZone |-> "UTC"]]
        e1 == SetIfSupplied(e0, "description", a.description, a.description.v)
        e2 == SetIfSupplied(e1, "location", a.location, a.location.v)
    IN  IF Truthy(a.participants)
        THEN DictSet(e2, "attendees", Emails(a.participants.v))
        ELSE e2

\* events().insert: the service stores the body under a new id.
Inserted(cal, body) ==
    DictSet(remote, FreshId, [cal |-> cal, ev |-> DictSet(body, "id", FreshId)])

CreateGoogleCalendarEvent(a, ok) ==
    LET event == CreateBody(a)
        call == [op |-> "events.insert", calendarId |-> a.calendar_id.v,
                 body |-> event, sendUpdates |-> "all"] IN
    /\ Begin("CreateGoogleCalendarEvent", a)
    /\ IF ~HasService THEN MissingService
       ELSE IF ~(ok /\ HasRoom) THEN RemoteFailure(<<call>>)
       ELSE /\ calls' = <<call>>
            /\ local' = [event |-> event]
            /\ remote' = Inserted(a.calendar_id.v, event)
            /\ out' = [event_id |-> FreshId]
            /\ ctx' = ctx
            /\ Finish("")

(***************************************************************************)
(* ModifyGoogleCalendarEvent: events().get, the overlay, events().update   *)
(***************************************************************************)
\* Mutation of GetCall: the first remote call is already the update.
GetCall_update(cal, id) == [op |-> "events.update", calendarId |-> cal, eventId |-> id]

\* events().get(calendarId=cal_id, eventId=self.event_id.value)
GetCall(cal, id) == [op |-> "events.get", calendarId |-> cal, eventId |-> id]

\* Mutation of ModifyOverlay: new_location is written whenever it is not None,
\* so that an empty string clears the location.
ModifyOverlay_clears(event, a) ==
    LET e1 == SetIfSupplied(event, "summary", a.new_summary, a.new_summary.v)
        e2 == SetIfSupplied(e1, "description", a.new_description, a.new_description.v)
        e3 == SetIfSupplied(e2, "start", a.new_start_time,
                            [dateTime |-> a.new_start_time.v, timeZone |-> "UTC"])
        e4 == SetIfSupplied(e3, "end", a.new_end_time,
                            [dateTime |-> a.new_end_time.v, timeZone |-> "UTC"])
        e5 == SetIfNotNone(e4, "location", a.new_location, a.new_location.v)
    IN  IF Truthy(a.new_participants)
        THEN DictSet(e5, "attendees", Emails(a.new_participants.v))
        ELSE e5

\* The fetched event after the six `if self.new_*.value:` statements.
ModifyOverlay(event, a) ==
    LET e1 == SetIfSupplied(event, "summary", a.new_summary, a.new_summary.v)
        e2 == SetIfSupplied(e1, "description", a.new_description, a.new_description.v)
        e3 == SetIfSupplied(e2, "start", a.new_start_time,
                            [dateTime |-> a.new_start_time.v, timeZone |-> "UTC"])
        e4 == SetIfSupplied(e3, "end", a.new_end_time,
                            [dateTime |-> a.new_end_time.v, timeZone |-> "UTC"])
        e5 == SetIfSupplied(e4, "location", a.new_location, a.new_location.v)
    IN  IF Truthy(a.new_participants)
        THEN DictSet(e5, "attendees", Emails(a.new_participants.v))
        ELSE e5

\* events().update: the service replaces the stored event by the body.
Updated(id, body) == [remote EXCEPT ![id].ev = DictSet(body, "id", id)]

\* service = ctx["service"]; cal_id = ...; event = events().get(...).execute()
FetchEvent(name, a, ok) ==
    LET cal_id == CalOrPrimary(a.calendar_id)
        call == GetCall(cal_id, a.event_id.v) IN
    /\ Begin(name, a)
    /\ IF ~HasService THEN MissingService
       ELSE IF ~(ok /\ Stored(cal_id, a.event_id.v)) THEN RemoteFailure(<<call>>)
       ELSE /\ calls' = <<call>>
            /\ local' = [cal_id |-> cal_id, event |-> remote[a.event_id.v].ev]
            /\ out' = EmptyDict
            /\ ctx' = ctx
            /\ remote' = remote
            /\ err' = ""
            /\ pc' = "fetched"

\* The component goes on after the fetch: it submits `body` and sets `port`.
SubmitUpdate(call, body, port, ok) ==
    /\ UNCHANGED <<runs, unit, args, ctx, ctx0, remote0>>
    /\ IF ~ok THEN RemoteFailure(Append(calls, call))
       ELSE /\ calls' = Append(calls, call)
            /\ local' = [cal_id |-> local.cal_id, event |-> body]
            /\ remote' = Updated(args.event_id.v, body)
            /\ out' = [p \in {port} |-> args.event_id.v]
            /\ Finish("")

ModifyGoogleCalendarEvent_get(a, ok) == FetchEvent("ModifyGoogleCalendarEvent", a, ok)

ModifyGoogleCalendarEvent_update(ok) ==
    LET event == ModifyOverlay(local.event, args)
        call == [op |-> "events.update", calendarId |-> local.cal_id,
                 eventId |-> args.event_id.v, body |-> event, sendUpdates |-> "all"] IN
    /\ pc = "fetched"
    /\ unit = "ModifyGoogleCalendarEvent"
    /\ SubmitUpdate(call, event, "modified_event_id", ok)

(***************************************************************************)
(* UpdateGoogleCalendarEventAttendees                                      *)
(***************************************************************************)
\* Mutation of AttendeesOverlay: the list is overlaid only when it is non-empty,
\* the way ModifyGoogleCalendarEvent treats new_participants.
AttendeesOverlay_merge(event, attendees) ==
    IF Truthy(attendees) THEN DictSet(event, "attendees", Emails(attendees.v)) ELSE event

\* event['attendees'] = [{'email': email} for email in self.attendees.value]
AttendeesOverlay(event, attendees) == DictSet(event, "attendees", Emails(attendees.v))

\* Iterating self.attendees.value raises when the port holds None.
Iterable(x) == x.t = "list"

UpdateGoogleCalendarEventAttendees_get(a, ok) ==
    FetchEvent("UpdateGoogleCalendarEventAttendees", a, ok)

UpdateGoogleCalendarEventAttendees_update(ok) ==
    /\ pc = "fetched"
    /\ unit = "UpdateGoogleCalendarEventAttendees"
    /\ IF ~Iterable(args.attendees)
       THEN /\ UNCHANGED <<runs, unit, args, ctx, ctx0, remote0, remote, calls, out>>
            /\ local' = EmptyDict
            /\ Finish("TypeError")
       ELSE LET event == AttendeesOverlay(local.event, args.attendees)
                call == [op |-> "events.update", calendarId |-> local.cal_id,
                         eventId |-> args.event_id.v, body |-> event] IN
            SubmitUpdate(call, event, "updated_event_id", ok)

(***************************************************************************)
(* The components that pass one remote call through.                       *)
(***************************************************************************)
\* A component whose one call does not change the store and whose answer
\* `resp` becomes the value of `port`.
ReadThrough(name, a, call, resp, port, val) ==
    /\ Begin(name, a)
    /\ IF ~HasService THEN MissingService
       ELSE IF Failed(resp) THEN RemoteFailure(<<call>>)
       ELSE /\ calls' = <<call>>
            /\ local' = [result |-> resp]
            /\ out' = [p \in {port} |-> val]
            /\ ctx' = ctx
            /\ remote' = remote
            /\ Finish("")

DeleteGoogleCalendarEvent(a, ok) ==
    LET cal_id == CalOrPrimary(a.calendar_id)
        call == [op |-> "events.delete", calendarId |-> cal_id, eventId |-> a.event_id.v] IN
    /\ Begin("DeleteGoogleCalendarEvent", a)
    /\ IF ~HasService THEN MissingService
       ELSE IF ~(ok /\ Stored(cal_id, a.event_id.v)) THEN RemoteFailure(<<call>>)
       ELSE /\ calls' = <<call>>
            /\ local' = [cal_id |-> cal_id]
            /\ remote' = DictDel(remote, a.event_id.v)
            /\ out' = [deletion_status |-> [status |-> "Event deleted successfully."]]
            /\ ctx' = ctx
            /\ Finish("")

\* calendarList().list(): the calendars of the principal, or an error.
CalendarListResponses ==
    {HttpError, [kind |-> "calendar#calendarList", items |-> <<"primary", "work">>]}

ListGoogleCalendars(resp) ==
    ReadThrough("ListGoogleCalendars", EmptyDict, [op |-> "calendarList.list"],
                resp, "calendars", resp)

\* calendars().get(): the calendar's metadata, or an error (also when unknown).
CalendarResponses(cal) ==
    {HttpError} \cup (IF cal \in CalendarIds
                      THEN {[kind |-> "calendar#calendar", id |-> cal]} ELSE {})

GetCalendarDetails(a, resp) ==
    ReadThrough("GetCalendarDetails", a,
                [op |-> "calendars.get", calendarId |-> a.calendar_id.v],
                resp, "details", resp)

SearchGoogleCalendarEvents(a, resp) ==
    ReadThrough("SearchGoogleCalendarEvents", a,
                [op |-> "events.list", calendarId |-> a.calendar_id.v, q |-> a.query.v,
                 timeMin |-> a.time_min.v, timeMax |-> a.time_max.v, singleEvents |-> TRUE],
                resp, "events", resp)

\* events().quickAdd: the service parses the text; the event it makes is its own.
QuickAdded(text) ==
    [summary |-> text, start |-> [dateTime |-> "T1", timeZone |-> "UTC"],
     end |-> [dateTime |-> "T2", timeZone |-> "UTC"]]

QuickAddGoogleCalendarEvent(a, ok) ==
    LET call == [op |-> "events.quickAdd", calendarId |-> a.calendar_id.v,
                 text |-> a.query.v] IN
    /\ Begin("QuickAddGoogleCalendarEvent", a)
    /\ IF ~HasService THEN MissingService
       ELSE IF ~(ok /\ HasRoom) THEN RemoteFailure(<<call>>)
       ELSE /\ calls' = <<call>>
            /\ local' = [result |-> DictSet(QuickAdded(a.query.v), "id", FreshId)]
            /\ remote' = Inserted(a.calendar_id.v, QuickAdded(a.query.v))
            /\ out' = [event_id |-> DictGet(DictSet(QuickAdded(a.query.v), "id", FreshId),
                                            "id", "")]
            /\ ctx' = ctx
            /\ Finish("")

MoveGoogleCalendarEvent(a, ok) ==
    LET call == [op |-> "events.move", calendarId |-> a.source_calendar_id.v,
                 eventId |-> a.event_id.v, destination |-> a.destination_calendar_id.v] IN
    /\ Begin("MoveGoogleCalendarEvent", a)
    /\ IF ~HasService THEN MissingService
       ELSE IF ~(/\ ok
                 /\ Stored(a.source_calendar_id.v, a.event_id.v)
                 /\ a.destination_calendar_id.v \in CalendarIds)
            THEN RemoteFailure(<<call>>)
       ELSE /\ calls' = <<call>>
            /\ local' = [result |-> remote[a.event_id.v].ev]
            /\ remote' = [remote EXCEPT ![a.event_id.v].cal = a.destination_calendar_id.v]
            /\ out' = [moved_event |-> remote[a.event_id.v].ev]
            /\ ctx' = ctx
            /\ Finish("")

(***************************************************************************)
(* ExtractEventFromJsonString                                              *)
(***************************************************************************)
Malformed == [malformed |-> "yes"]   \* a string json.loads rejects

ExtractRequired == <<"summary", "start_time", "end_time">>

\* The required keys execute reads before it fails (all three when none is missing).
RequiredRead(data) ==
    LET missing == {i \in 1..Len(ExtractRequired) : ExtractRequired[i] \notin DOMAIN data}
    IN  IF missing = {} THEN Len(ExtractRequired)
        ELSE (CHOOSE i \in missing : \A j \in missing : i <= j) - 1

\* Mutation of ExtractOutput: location and participants are set only when the
\* payload has them.
ExtractOutput_nodefaults(data) ==
    LET n == RequiredRead(data)
        keys == {ExtractRequired[i] : i \in 1..n}
    IN  IF n < Len(ExtractRequired) THEN [k \in keys |-> data[k]]
        ELSE [k \in DOMAIN data |-> data[k]]

\* The output ports execute has set when it returns or raises.
ExtractOutput(data) ==
    LET n == RequiredRead(data)
        req == [k \in {ExtractRequired[i] : i \in 1..n} |-> data[k]]
    IN  IF n < Len(ExtractRequired) THEN req
        ELSE DictSet(DictSet(req, "location", DictGet(data, "location", "")),
                     "participants", DictGet(data, "participants", <<>>))

ExtractEventFromJsonString(a) ==
    /\ Begin("ExtractEventFromJsonString", a)
    /\ calls' = <<>>
    /\ ctx' = ctx
    /\ remote' = remote
    /\ IF a.json = Malformed
       THEN /\ local' = EmptyDict
            /\ out' = EmptyDict
            /\ Finish("JSONDecodeError")
       ELSE /\ local' = [data |-> a.json]
            /\ out' = ExtractOutput(a.json)
            /\ Finish(IF RequiredRead(a.json) < Len(ExtractRequired)
                      THEN "KeyError" ELSE "")

(***************************************************************************)
(* The values the host and the service are drawn from.                     *)
(***************************************************************************)
Utc(t) == [dateTime |-> t, timeZone |-> "UTC"]

\* An event with every field, as the service returns it.
EvFull ==
    [id |-> "e1", summary |-> "Standup", description |-> "daily",
     start |-> [dateTime |-> "T1", timeZone |-> "Europe/Berlin"],
     end |-> [dateTime |-> "T2", timeZone |-> "Europe/Berlin"],
     location |-> "Room 1",
     attendees |-> <<[email |-> "a@x.com", responseStatus |-> "accepted"],
                     [email |-> "c@x.com", responseStatus |-> "needsAction"]>>,
     hangoutLink |-> <<"m", "/", "x">>]

\* An untitled all-day event: no optional field at all.
EvBare == [id |-> "e1", start |-> [date |-> "D1"], end |-> [date |-> "D2"]]

\* A second event, with some of the optional fields.
EvSome ==
    [id |-> "e2", summary |-> "Lunch", start |-> Utc("T2"), end |-> Utc("T3"),
     attendees |-> <<[email |-> "b@x.com", responseStatus |-> "declined"]>>]

StoreOf(events, cal) == [i \in {e.id : e \in events} |->
                            [cal |-> cal, ev |-> CHOOSE e \in events : e.id = i]]

\* The Context after an earlier AuthenticateGoogleCalendar.
Authenticated == [service |-> build(from_service_account("env"))]

OptStr(s) == {None, Str(""), Str(s)}

AuthInputs ==
    [service_account_json : OptStr("sa.json"), impersonate_user_account : OptStr("u@x.com")]
EnvValues == OptStr("b64")

CreateInputs ==
    [summary : {Str("S")}, start_time : {Str("T1")}, end_time : {Str("T2")},
     description : OptStr("D"), location : OptStr("L"),
     participants : {None, Lst(<<>>), Lst(<<"a@x.com">>), Lst(<<"b@x.com", "a@x.com">>)},
     calendar_id : {Str("primary")}]

ModifyInputs ==
    [event_id : {Str("e1")}, calendar_id : {None, Str("work")},
     new_summary : OptStr("S9"), new_description : OptStr("D9"),
     new_start_time : OptStr("T8"), new_end_time : OptStr("T9"),
     new_location : OptStr("L9"),
     new_participants : {None, Lst(<<>>), Lst(<<"b@x.com", "a@x.com">>)}]

AttendeeLists ==
    {None, Lst(<<>>), Lst(<<"a@x.com">>), Lst(<<"a@x.com", "b@x.com">>),
     Lst(<<"b@x.com", "a@x.com">>)}

AttendeesInputs ==
    [event_id : {Str("e1"), Str("e2")}, calendar_id : OptStr("work"),
     attendees : AttendeeLists]

GetEventsInputs ==
    [calendar_id : {Str("primary"), Str("work")}, start_time : {Str("T1")},
     end_time : {Str("T3")}]

\* The conferencing URLs: the strings of at most MaxLen characters.
Alphabet == {"/", "a", "b"}
Urls == UNION {[1..n -> Alphabet] : n \in 0..MaxLen}

\* The payloads json.loads yields: dicts over the five keys, and broken text.
PayloadKeys == {"summary", "start_time", "end_time", "location", "participants"}
PayloadValue(k) == IF k = "participants" THEN <<"a@x.com", "b@x.com">> ELSE "v-" \o k
Payloads == {[k \in K |-> PayloadValue(k)] : K \in SUBSET PayloadKeys}
ExtractInputs == [json : Payloads \cup {Malformed}]

(***************************************************************************)
(* The workflow: the host runs up to MaxRuns components, any of them, on   *)
(* representative inputs.                                                  *)
(***************************************************************************)
Idle(c, r, n) ==
    /\ ctx = c /\ ctx0 = c
    /\ remote = r /\ remote0 = r
    /\ runs = n
    /\ pc = "idle" /\ unit = "" /\ err = ""
    /\ args = EmptyDict /\ local = EmptyDict /\ out = EmptyDict
    /\ calls = <<>>

Init == \E r \in {EmptyDict, StoreOf({EvFull}, "primary")} : Idle(EmptyDict, r, 0)

SampleAuth ==
    {a \in AuthInputs : a.service_account_json # Str("") /\ a.impersonate_user_account # Str("")}
SampleCreate ==
    {a \in CreateInputs : a.description = None /\ a.location \in {None, Str("L")}
                          /\ a.participants \in {None, Lst(<<"a@x.com">>)}}
SampleModify ==
    {a \in ModifyInputs : /\ a.new_summary = None /\ a.new_description = None
                          /\ a.new_start_time = None /\ a.new_end_time \in {None, Str("T9")}
                          /\ a.new_location \in {None, Str("L9")}
                          /\ a.new_participants = None}
SampleAttendees ==
    {a \in AttendeesInputs : /\ a.event_id = Str("e1") /\ a.calendar_id = None
                             /\ a.attendees \in {None, Lst(<<>>), Lst(<<"b@x.com", "a@x.com">>)}}
EventRefs == [event_id : {Str("e1"), Str("e2")}, calendar_id : {None, Str("work")}]
MoveInputs ==
    [event_id : {Str("e1")}, source_calendar_id : {Str("primary"), Str("work")},
     destination_calendar_id : {Str("primary"), Str("work")}]
SearchInputs ==
    [calendar_id : {Str("primary")}, query : {Str("lunch")}, time_min : {Str("T1")},
     time_max : {Str("T3")}]
QuickAddInputs == [calendar_id : {Str("primary")}, query : {Str("Lunch at noon")}]
CalendarInputs == [calendar_id : {Str("primary"), Str("nope")}]

AuthenticateStep(A) ==
    \E a \in A, exists \in BOOLEAN, encoded \in EnvValues, wellFormed \in BOOLEAN :
        AuthenticateGoogleCalendar(a, exists, encoded, wellFormed)
GetEventsStep(A) ==
    \E a \in A : \E resp \in ListResponses(a.calendar_id.v) : GetGoogleCalendarEvents(a, resp)
CreateStep(A) == \E a \in A, ok \in BOOLEAN : CreateGoogleCalendarEvent(a, ok)
ModifyStep(A) == \E a \in A, ok \in BOOLEAN : ModifyGoogleCalendarEvent_get(a, ok)
ModifyUpdateStep == \E ok \in BOOLEAN : ModifyGoogleCalendarEvent_update(ok)
AttendeesStep(A) == \E a \in A, ok \in BOOLEAN : UpdateGoogleCalendarEventAttendees_get(a, ok)
AttendeesUpdateStep == \E ok \in BOOLEAN : UpdateGoogleCalendarEventAttendees_update(ok)
DeleteStep == \E a \in EventRefs, ok \in BOOLEAN : DeleteGoogleCalendarEvent(a, ok)
ListCalendarsStep == \E resp \in CalendarListResponses : ListGoogleCalendars(resp)
CalendarDetailsStep ==
    \E a \in CalendarInputs : \E resp \in CalendarResponses(a.calendar_id.v) :
        GetCalendarDetails(a, resp)
QuickAddStep == \E a \in QuickAddInputs, ok \in BOOLEAN : QuickAddGoogleCalendarEvent(a, ok)
SearchStep ==
    \E a \in SearchInputs : \E resp \in ListResponses(a.calendar_id.v) :
        SearchGoogleCalendarEvents(a, resp)
MoveStep == \E a \in MoveInputs, ok \in BOOLEAN : MoveGoogleCalendarEvent(a, ok)
ExtractStep(A) == \E a \in A : ExtractEventFromJsonString(a)

Next ==
    \/ AuthenticateStep(SampleAuth)
    \/ GetEventsStep(GetEventsInputs)
    \/ CreateStep(SampleCreate)
    \/ ModifyStep(SampleModify)
    \/ ModifyUpdateStep
    \/ AttendeesStep(SampleAttendees)
    \/ AttendeesUpdateStep
    \/ DeleteStep
    \/ ListCalendarsStep
    \/ CalendarDetailsStep
    \/ QuickAddStep
    \/ SearchStep
    \/ MoveStep
    \/ ExtractStep({[json |-> [summary |-> "Lunch", start_time |-> "T1", end_time |-> "T2"]]})

Spec == Init /\ [][Next]_vars

(***************************************************************************)
(* One component on every input: the last component of a workflow, started *)
(* from each of the states the earlier components can have left.           *)
(***************************************************************************)
LastRun == MaxRuns - 1

\* The Context after an earlier AuthenticateGoogleCalendar that impersonated.
Delegated == [service |-> build(with_subject(from_service_account("file"), "u@x.com"))]

InitAuthenticate ==
    \E c \in {EmptyDict, Authenticated, Delegated} : Idle(c, EmptyDict, LastRun)
NextAuthenticate == AuthenticateStep(AuthInputs)
SpecAuthenticate == InitAuthenticate /\ [][NextAuthenticate]_vars

InitCreate ==
    \E r \in {EmptyDict, StoreOf({EvFull}, "primary")} : Idle(Authenticated, r, LastRun)
NextCreate == CreateStep(CreateInputs)
SpecCreate == InitCreate /\ [][NextCreate]_vars

InitModify ==
    \E r \in {StoreOf({EvFull}, "primary"), StoreOf({EvBare}, "primary"),
              StoreOf({EvFull}, "work")} : Idle(Authenticated, r, LastRun)
NextModify ==
    \/ ModifyStep(ModifyInputs)
    \/ ModifyUpdateStep
SpecModify == InitModify /\ [][NextModify]_vars

InitAttendees ==
    \E r \in {StoreOf({EvFull, EvSome}, "primary"), StoreOf({EvBare}, "primary"),
              StoreOf({EvFull}, "work")} : Idle(Authenticated, r, LastRun)
NextAttendees ==
    \/ AttendeesStep(AttendeesInputs)
    \/ AttendeesUpdateStep
SpecAttendees == InitAttendees /\ [][NextAttendees]_vars

\* An event like `event` whose conferencing URL is u.
WithLink(event, u) == DictSet(event, "hangoutLink", u)

InitGetEvents ==
    \E r \in {StoreOf({WithLink(e, u)}, "primary") : e \in {EvFull, EvBare}, u \in Urls}
             \cup {EmptyDict, StoreOf({EvBare}, "primary"), StoreOf({EvFull, EvSome}, "primary"),
                   StoreOf({EvBare, EvSome}, "work")} :
        Idle(Authenticated, r, LastRun)
NextGetEvents == GetEventsStep(GetEventsInputs)
SpecGetEvents == InitGetEvents /\ [][NextGetEvents]_vars

InitExtract ==
    \E c \in {EmptyDict, Authenticated}, r \in {EmptyDict, StoreOf({EvFull}, "primary")} :
        Idle(c, r, LastRun)
NextExtract == ExtractStep(ExtractInputs)
SpecExtract == InitExtract /\ [][NextExtract]_vars

(***************************************************************************)
(* Properties of AuthenticateGoogleCalendar (under SpecAuthenticate).      *)
(***************************************************************************)
AuthDone == unit = "AuthenticateGoogleCalendar" /\ pc = "idle"

\* Neither a usable file path nor the environment variable.
NoCredentialSource ==
    /\ ~Truthy(args.service_account_json) \/ ~local.path_exists
    /\ ~Truthy(local.encoded_json)

\* C1: whenever the path is empty or names no existing file and the
\* environment variable is absent or empty, Authenticate raises the
\* configuration error (ValueError), builds no client and leaves the Context
\* as it was: no "service" entry is added or replaced.
C1_NoSourceFailsCleanly ==
    (AuthDone /\ NoCredentialSource) =>
        /\ err = "ValueError"
        /\ local.built = <<>>
        /\ ctx = ctx0

\* C1's case: a path to a missing file, an empty variable, and a client of an
\* earlier authentication that stays in the Context.
C1_Witness ==
    /\ AuthDone /\ NoCredentialSource
    /\ args.service_account_json = Str("sa.json")
    /\ local.encoded_json = Str("")
    /\ err = "ValueError"
    /\ ctx = Delegated

\* The client Authenticate stored was built from delegated credentials.
BuiltDelegated == ctx.service.credentials.subject # None

\* C10 as stated: the client is built from delegated credentials exactly when
\* a subject is supplied, an empty subject counting as none supplied.
C10_DelegatesIffNonEmpty ==
    (AuthDone /\ err = "") =>
        (BuiltDelegated <=> Truthy(args.impersonate_user_account))

\* C10 amended: the client is built from credentials delegated to the subject
\* exactly when the port is not None; an empty string is a subject too, and
\* only None leaves the base credentials as loaded.
C10_DelegatesIffNotNone ==
    (AuthDone /\ err = "") =>
        /\ ctx.service = local.built[1]
        /\ BuiltDelegated <=> args.impersonate_user_account # None
        /\ args.impersonate_user_account # None =>
               ctx.service.credentials.subject = args.impersonate_user_account
        /\ ctx.service.credentials.source =
               (IF Truthy(args.service_account_json) /\ local.path_exists
                THEN "file" ELSE "env")

\* C10's case: an empty subject, and delegated credentials all the same.
C10_Witness ==
    /\ AuthDone /\ err = ""
    /\ args.impersonate_user_account = Str("")
    /\ ctx.service.credentials.subject = Str("")

(***************************************************************************)
(* Properties of CreateGoogleCalendarEvent (under SpecCreate).             *)
(***************************************************************************)
\* The record Create handed to events().insert.
CreateSubmitted == unit = "CreateGoogleCalendarEvent" /\ calls # <<>>
InsertBody == calls[1].body

\* The optional input ports of Create and the key each one fills.
CreateOptional == {<<"description", "description">>, <<"location", "location">>,
                   <<"participants", "attendees">>}

RequiredInBody ==
    /\ InsertBody.summary = args.summary.v
    /\ InsertBody.start = [dateTime |-> args.start_time.v, timeZone |-> "UTC"]
    /\ InsertBody.end = [dateTime |-> args.end_time.v, timeZone |-> "UTC"]

\* C4 as stated: the submitted record has summary, start and end, and has an
\* optional field exactly when the caller supplied one, an empty string being
\* a supplied value.
C4_OptionalIffProvided ==
    CreateSubmitted =>
        /\ RequiredInBody
        /\ \A f \in CreateOptional : f[2] \in DOMAIN InsertBody <=> args[f[1]] # None

\* C4 amended: the submitted record has summary, start and end (UTC), and has
\* an optional field, with the supplied value, exactly when that value is
\* truthy: a port left at None, an empty string and an empty list all keep the
\* field out of the record.
C4_OptionalIffTruthy ==
    CreateSubmitted =>
        /\ RequiredInBody
        /\ DOMAIN InsertBody \subseteq
               {"summary", "start", "end", "description", "location", "attendees"}
        /\ \A f \in CreateOptional : f[2] \in DOMAIN InsertBody <=> Truthy(args[f[1]])
        /\ Truthy(args.description) => InsertBody.description = args.description.v
        /\ Truthy(args.location) => InsertBody.location = args.location.v
        /\ Truthy(args.participants) =>
               /\ Len(InsertBody.attendees) = Len(args.participants.v)
               /\ \A i \in DOMAIN InsertBody.attendees :
                      InsertBody.attendees[i] = [email |-> args.participants.v[i]]

\* C4's case: an empty description and an empty participant list beside a real
\* location; only the location is in the stored event.
C4_Witness ==
    /\ CreateSubmitted /\ err = ""
    /\ args.description = Str("") /\ args.participants = Lst(<<>>)
    /\ args.location = Str("L")
    /\ DOMAIN InsertBody = {"summary", "start", "end", "location"}
    /\ remote[out.event_id].ev.location = "L"

(***************************************************************************)
(* Properties of ModifyGoogleCalendarEvent (under SpecModify).             *)
(***************************************************************************)
\* The record Modify fetched, and the one it handed to events().update.
ModifySubmitted == unit = "ModifyGoogleCalendarEvent" /\ Len(calls) = 2
FetchedEvent == remote0[args.event_id.v].ev
UpdateBody == calls[2].body

\* The new_* ports of Modify, the key each one overwrites, and the value.
ModifyPorts ==
    {<<"new_summary", "summary">>, <<"new_description", "description">>,
     <<"new_start_time", "start">>, <<"new_end_time", "end">>,
     <<"new_location", "location">>, <<"new_participants", "attendees">>}

SuppliedKeys == {f[2] : f \in {g \in ModifyPorts : Truthy(args[g[1]])}}

NewValue(key) ==
    CASE key = "summary" -> args.new_summary.v
      [] key = "description" -> args.new_description.v
      [] key = "start" -> [dateTime |-> args.new_start_time.v, timeZone |-> "UTC"]
      [] key = "end" -> [dateTime |-> args.new_end_time.v, timeZone |-> "UTC"]
      [] key = "location" -> args.new_location.v
      [] key = "attendees" ->
             [i \in DOMAIN args.new_participants.v |->
                 [email |-> args.new_participants.v[i]]]

\* C2: the record Modify submits is the fetched record with exactly the keys
\* of the truthy new_* ports overwritten by the new values; every other key
\* is present as fetched, with the fetched value, or absent as fetched.
C2_OnlySuppliedOverwritten ==
    ModifySubmitted =>
        /\ DOMAIN UpdateBody = DOMAIN FetchedEvent \cup SuppliedKeys
        /\ \A k \in DOMAIN UpdateBody :
               UpdateBody[k] = IF k \in SuppliedKeys THEN NewValue(k) ELSE FetchedEvent[k]

\* C2's case: only new_location is supplied, beside an empty new_summary; the
\* stored event changed its location and nothing else.
C2_Witness ==
    /\ ModifySubmitted /\ err = ""
    /\ SuppliedKeys = {"location"}
    /\ args.new_summary = Str("")
    /\ FetchedEvent = EvFull
    /\ remote[args.event_id.v].ev = [EvFull EXCEPT !.location = "L9"]

(***************************************************************************)
(* Properties of UpdateGoogleCalendarEventAttendees (under SpecAttendees). *)
(***************************************************************************)
AttendeesUpdated ==
    unit = "UpdateGoogleCalendarEventAttendees" /\ pc = "idle" /\ err = ""

\* C3: after UpdateAttendees succeeds the stored event's attendees are exactly
\* the supplied addresses in the supplied order, whatever the list (the empty
\* one too) and whatever the attendees before; every other field of the
\* submitted record is as fetched.
C3_AttendeesReplaced ==
    AttendeesUpdated =>
        LET stored == remote[args.event_id.v].ev
            list == args.attendees.v IN
        /\ stored = UpdateBody
        /\ "attendees" \in DOMAIN stored
        /\ Len(stored.attendees) = Len(list)
        /\ \A i \in DOMAIN stored.attendees : stored.attendees[i] = [email |-> list[i]]
        /\ DOMAIN UpdateBody \ {"attendees"} = DOMAIN FetchedEvent \ {"attendees"}
        /\ \A k \in DOMAIN UpdateBody \ {"attendees"} : UpdateBody[k] = FetchedEvent[k]

\* C3's case: the empty list replaces two earlier attendees.
C3_Witness ==
    /\ AttendeesUpdated
    /\ args.attendees = Lst(<<>>)
    /\ FetchedEvent = EvFull
    /\ remote[args.event_id.v].ev.attendees = <<>>
    /\ out.updated_event_id = "e1"

(***************************************************************************)
(* Properties of the workflow (under Spec).                                *)
(***************************************************************************)
\* The components that start with service = ctx["service"].
ClientUnits ==
    {"GetGoogleCalendarEvents", "CreateGoogleCalendarEvent", "ModifyGoogleCalendarEvent",
     "DeleteGoogleCalendarEvent", "ListGoogleCalendars", "GetCalendarDetails",
     "QuickAddGoogleCalendarEvent", "SearchGoogleCalendarEvents", "MoveGoogleCalendarEvent",
     "UpdateGoogleCalendarEventAttendees"}

\* C5: a component that needs the client and starts while the Context has no
\* "service" entry ends with an error (KeyError), having issued no remote
\* call, set no output port and changed neither the Context nor the store.
C5_MissingClientFails ==
    (unit \in ClientUnits /\ "service" \notin DOMAIN ctx0) =>
        /\ pc = "idle"
        /\ err = "KeyError"
        /\ calls = <<>>
        /\ out = EmptyDict
        /\ ctx = ctx0
        /\ remote = remote0

\* C5's case: Modify as the third component of a workflow whose Context never
\* got a client, on a store that holds the event it names.
C5_Witness ==
    /\ unit = "ModifyGoogleCalendarEvent" /\ runs > 2
    /\ "service" \notin DOMAIN ctx0
    /\ args.event_id.v \in DOMAIN remote
    /\ err = "KeyError"

\* The components that fetch an event and then update it.
FetchThenUpdate == {"ModifyGoogleCalendarEvent", "UpdateGoogleCalendarEventAttendees"}
UpdateIssued == \E i \in DOMAIN calls : calls[i].op = "events.update"

\* C9: Modify and UpdateAttendees issue at most two remote calls, the fetch
\* first and the update, the only call that changes the store, second; as long
\* as the update is not issued (the component still runs, or it failed at the
\* fetch or between the fetch and the update) the store is as it was when the
\* component started and the output identifier is not set.
C9_FetchBeforeUpdate ==
    unit \in FetchThenUpdate =>
        /\ Len(calls) <= 2
        /\ \A i \in DOMAIN calls :
               /\ calls[i].op = (IF i = 1 THEN "events.get" ELSE "events.update")
               /\ calls[i].eventId = args.event_id.v
        /\ pc = "fetched" => Len(calls) = 1
        /\ ~UpdateIssued => (remote = remote0 /\ out = EmptyDict)
        /\ out # EmptyDict => (UpdateIssued /\ err = "")

\* C9's case: UpdateAttendees fails between the fetch and the update, on a
\* port that holds None; the fetched event is still in the store.
C9_Witness ==
    /\ unit = "UpdateGoogleCalendarEventAttendees" /\ pc = "idle"
    /\ err = "TypeError"
    /\ Len(calls) = 1 /\ calls[1].op = "events.get"
    /\ remote = remote0 /\ remote[args.event_id.v].ev = EvFull
    /\ out = EmptyDict

(***************************************************************************)
(* Properties of ExtractEventFromJsonString (under SpecExtract).           *)
(***************************************************************************)
ExtractParsed ==
    unit = "ExtractEventFromJsonString" /\ pc = "idle" /\ args.json # Malformed

\* C6: for a parsed payload, Extract sets summary, start_time and end_time to
\* the payload's values, location to the payload's or "" and participants to
\* the payload's or the empty list; with summary, start_time or end_time
\* missing it raises KeyError; either way it issues no remote call and the
\* result depends on no entry of the Context, which it leaves alone.
C6_ExtractOutputs ==
    ExtractParsed =>
        LET data == args.json IN
        /\ calls = <<>> /\ ctx = ctx0 /\ remote = remote0
        /\ IF {"summary", "start_time", "end_time"} \subseteq DOMAIN data
           THEN /\ err = ""
                /\ DOMAIN out = PayloadKeys
                /\ out.summary = data.summary
                /\ out.start_time = data.start_time
                /\ out.end_time = data.end_time
                /\ out.location = (IF "location" \in DOMAIN data THEN data.location ELSE "")
                /\ out.participants =
                       (IF "participants" \in DOMAIN data THEN data.participants ELSE <<>>)
           ELSE err = "KeyError"

\* C6's case: a payload with the three required keys only, in a workflow that
\* never authenticated.
C6_Witness ==
    /\ ExtractParsed /\ err = ""
    /\ DOMAIN args.json = {"summary", "start_time", "end_time"}
    /\ ctx = EmptyDict
    /\ out.location = "" /\ out.participants = <<>>

(***************************************************************************)
(* Properties of GetGoogleCalendarEvents (under SpecGetEvents).            *)
(***************************************************************************)
GetEventsDone == unit = "GetGoogleCalendarEvents" /\ pc = "idle" /\ err = ""
ResponseItems == IF "items" \in DOMAIN local.events_result
                 THEN local.events_result.items ELSE <<>>

\* The text of u after its last '/' (all of u when it has none).
AfterLastSlash(u) ==
    LET slashes == {i \in 1..Len(u) : u[i] = "/"}
        from == IF slashes = {} THEN 0
                ELSE CHOOSE i \in slashes : \A j \in slashes : j <= i
    IN  SubSeq(u, from + 1, Len(u))

\* C7: in every event GetEvents returns, meeting_id is the text after the last
\* '/' of the event's conferencing URL, and None when the event has no URL or
\* an empty one.
C7_MeetingIdIsLastSegment ==
    (GetEventsDone /\ ResponseItems # <<>>) =>
        \A i \in DOMAIN ResponseItems :
            LET item == ResponseItems[i]
                entry == out.events.events[i] IN
            IF "hangoutLink" \in DOMAIN item /\ item.hangoutLink # <<>>
            THEN /\ entry.meeting_id = Chars(AfterLastSlash(item.hangoutLink))
                 /\ entry.gmeet_link = item.hangoutLink
            ELSE entry.meeting_id = None

\* C7's case: a URL with two slashes, whose last segment is the meeting id.
C7_Witness ==
    /\ GetEventsDone /\ Len(ResponseItems) = 1
    /\ "hangoutLink" \in DOMAIN ResponseItems[1]
    /\ ResponseItems[1].hangoutLink = <<"a", "/", "b">>
    /\ out.events.events[1].meeting_id = Chars(<<"b">>)

\* C8: GetEvents outputs the "no events" message, and no "events" key, exactly
\* when the response has no items; otherwise the "events" list has one entry
\* per item, the i-th entry made from the i-th item of the response.
C8_OneEntryPerItemInOrder ==
    GetEventsDone =>
        IF ResponseItems = <<>>
        THEN out.events = [message |-> "No events found for the specified time range."]
        ELSE /\ DOMAIN out.events = {"events"}
             /\ Len(out.events.events) = Len(ResponseItems)
             /\ \A i \in DOMAIN ResponseItems :
                    LET item == ResponseItems[i]
                        entry == out.events.events[i] IN
                    /\ entry.event_name =
                           (IF "summary" \in DOMAIN item THEN item.summary ELSE "No Title")
                    /\ entry.participants =
                           (IF "attendees" \in DOMAIN item
                            THEN [j \in DOMAIN item.attendees |-> item.attendees[j].email]
                            ELSE <<>>)
                    /\ entry.location =
                           (IF "location" \in DOMAIN item THEN item.location ELSE "")

\* C8's case: the service answers with the later event first, and so does the
\* output.
C8_Witness ==
    /\ GetEventsDone /\ Len(ResponseItems) = 2
    /\ ResponseItems[1].id = "e2" /\ ResponseItems[2].id = "e1"
    /\ out.events.events[1].event_name = "Lunch"
    /\ out.events.events[2].event_name = "Standup"

====
